---------------------------- MODULE Spec2Model ----------------------------
(***************************************************************************)
(* The sales dashboards of the repository as state machines.               *)
(*                                                                         *)
(*   analise.py  upload -> load_data (st.cache_data) -> sidebar_filters    *)
(*               -> apply_filters -> display_summary_metrics               *)
(*               -> display_visualizations -> display_alerts, rerun on     *)
(*               every user interaction.                                   *)
(*   vendas.py   upload -> load_data (st.cache) -> tables and charts, with *)
(*               an in-place coercion of the 'Data' column.                *)
(*                                                                         *)
(* A cell of a data frame is a tuple: <<>> for a missing value (NaN, NaT,  *)
(* None), <<"str", s>> for text, <<"num", n>> for a number, <<"ts", y, m,  *)
(* d>> for a Timestamp, and a tagged tuple for a period label.  A data     *)
(* frame is a record [columns, rows]; each row maps a column to its cell.  *)
(* Names are written without their accents ("mes", "Responsavel",          *)
(* "Cadencia", "Diario").                                                  *)
(***************************************************************************)
EXTENDS Integers, Sequences, FiniteSets, TLC

VARIABLES
    script,         \* which script the session runs: "analise" or "vendas"
    st_cache,       \* whether st.cache hands out the stored object or a copy
    pc,             \* the position of the script run
    file,           \* the file the analyst has on disk (fixed per behaviour)
    uploaded_file,  \* the file_uploader's value: the file, or None
    cache,          \* the entry the caching decorator holds, or None
    df,             \* the frame load_data returned to the script, or None
    error,          \* what st.error showed (analise.py), or NoError
    filters,        \* the dict sidebar_filters returned, or None
    filtered_df,    \* the frame apply_filters returned, or None
    metrics,        \* what display_summary_metrics showed, or None
    charts,         \* what display_visualizations / vendas.py charted, or None
    alerts,         \* what display_alerts showed, or None
    exception       \* the uncaught exception that ended the run, or NoError

vars == <<script, st_cache, pc, file, uploaded_file, cache, df, error, filters,
          filtered_df, metrics, charts, alerts, exception>>

----------------------------------------------------------------------------
(* Bounds of the input families.                                           *)

MaxRowsLoad == 2
MaxRowsFilter == 2
MaxRowsAlerts == 5
MaxRowsVendas == 2

----------------------------------------------------------------------------
(* Values.                                                                 *)

None == [none |-> TRUE]
NoError == ""
Null == <<>>

Str(s) == <<"str", s>>
Num(n) == <<"num", n>>
Ts(date) == <<"ts", date[1], date[2], date[3]>>

IsNull(cell) == cell = Null
DateOf(cell) == <<cell[2], cell[3], cell[4]>>
NumOf(cell) == cell[2]

Min(a, b) == IF a <= b THEN a ELSE b
Max(a, b) == IF a >= b THEN a ELSE b

RECURSIVE SumSeq(_)
SumSeq(s) == IF s = <<>> THEN 0 ELSE Head(s) + SumSeq(Tail(s))

Range(s) == {s[i] : i \in 1..Len(s)}

\* df[mask]: the rows at which the boolean Series mask is True, in their order.
Where(t, mask) ==
    LET idx == SelectSeq([i \in 1..Len(t.rows) |-> i], LAMBDA i : mask[i]) IN
    [columns |-> t.columns, rows |-> [j \in 1..Len(idx) |-> t.rows[idx[j]]]]

\* df[name] = values: assigns (adds or overwrites) a column, row by row.
SetColumn(t, name, values) ==
    [columns |-> t.columns \cup {name},
     rows |-> [i \in 1..Len(t.rows) |->
                 [c \in t.columns \cup {name} |->
                     IF c = name THEN values[i] ELSE t.rows[i][c]]]]

\* df.rename(columns={old: new}); the inputs never hold old and new together.
Rename(t, old, new) ==
    LET cols == (t.columns \ {old}) \cup {new} IN
    [columns |-> cols,
     rows |-> [i \in 1..Len(t.rows) |->
                 [c \in cols |-> IF c = new THEN t.rows[i][old] ELSE t.rows[i][c]]]]

Column(t, name) == [i \in 1..Len(t.rows) |-> t.rows[i][name]]

----------------------------------------------------------------------------
(* Calendar: the proleptic Gregorian calendar of datetime / pandas.        *)

DateLE(a, b) ==
    \/ a[1] < b[1]
    \/ a[1] = b[1] /\ a[2] < b[2]
    \/ a[1] = b[1] /\ a[2] = b[2] /\ a[3] <= b[3]

\* Days since 1970-01-01.
DaysFromCivil(date) ==
    LET y == IF date[2] <= 2 THEN date[1] - 1 ELSE date[1]
        m == date[2]
        era == y \div 400
        yoe == y - era * 400
        doy == (153 * (IF m > 2 THEN m - 3 ELSE m + 9) + 2) \div 5 + date[3] - 1
        doe == yoe * 365 + yoe \div 4 - yoe \div 100 + doy
    IN era * 146097 + doe - 719468

CivilFromDays(days) ==
    LET z == days + 719468
        era == z \div 146097
        doe == z - era * 146097
        yoe == (doe - doe \div 1460 + doe \div 36524 - doe \div 146096) \div 365
        doy == doe - (365 * yoe + yoe \div 4 - yoe \div 100)
        mp == (5 * doy + 2) \div 153
        d == doy - (153 * mp + 2) \div 5 + 1
        m == IF mp < 10 THEN mp + 3 ELSE mp - 9
        y == yoe + era * 400 + (IF m <= 2 THEN 1 ELSE 0)
    IN <<y, m, d>>

\* Monday = 0 ... Sunday = 6.
Weekday(date) == (DaysFromCivil(date) + 3) % 7

\* The labels str() gives the periods, as tagged tuples.
DayLabel(date) == <<"D", date[1], date[2], date[3]>>
WeekLabel(date) ==
    LET monday == DaysFromCivil(date) - Weekday(date)
        a == CivilFromDays(monday)
        b == CivilFromDays(monday + 6)
    IN <<"W", a[1], a[2], a[3], b[1], b[2], b[3]>>
MonthLabel(date) == <<"M", date[1], date[2]>>
QuarterLabel(date) == <<"Q", date[1], (date[2] - 1) \div 3 + 1>>
YearLabel(date) == <<"Y", date[1]>>

----------------------------------------------------------------------------
(* analise.py: load_data.                                                  *)

required_cols ==
    << [standard |-> "data", possible |-> <<"Data", "DATE", "data_venda">>],
       [standard |-> "valor", possible |-> <<"Valor", "VALUE", "total">>],
       [standard |-> "empresa", possible |-> <<"Empresa", "Cliente", "CLIENTE">>],
       [standard |-> "vendedor", possible |-> <<"Vendedor", "Responsavel", "VENDEDOR">>] >>

\* The inner loop with its break: the first alias of the list the frame holds.
RECURSIVE FirstPresent(_, _)
FirstPresent(possible, columns) ==
    IF possible = <<>> THEN ""
    ELSE IF Head(possible) \in columns THEN Head(possible)
    ELSE FirstPresent(Tail(possible), columns)

RECURSIVE StandardizeColumns(_, _)
StandardizeColumns(t, entries) ==
    IF entries = <<>> THEN t
    ELSE LET col == FirstPresent(Head(entries).possible, t.columns) IN
         StandardizeColumns(
             IF col = "" THEN t ELSE Rename(t, col, Head(entries).standard),
             Tail(entries))

\* What the date parser makes of a text: its date, or <<>> when it has none.
ParseDate(s) ==
    CASE s = "2023-12-31" -> <<2023, 12, 31>>
      [] s = "2024-01-15" -> <<2024, 1, 15>>
      [] s = "2024-02-01" -> <<2024, 2, 1>>
      [] s = "2024-06-30" -> <<2024, 6, 30>>
      [] OTHER -> <<>>

\* pd.to_datetime(..., errors='coerce') on one cell.
ToDatetime(cell) ==
    IF IsNull(cell) THEN Null
    ELSE IF cell[1] = "ts" THEN cell
    ELSE IF cell[1] = "str" /\ ParseDate(cell[2]) # <<>> THEN Ts(ParseDate(cell[2]))
    ELSE Null

\* What the number parser makes of a text: <<n>>, or <<>> when it is no number.
ParseNumber(s) ==
    CASE s = "-5" -> <<-5>>
      [] s = "0" -> <<0>>
      [] s = "5" -> <<5>>
      [] s = "100" -> <<100>>
      [] OTHER -> <<>>

\* Mutant: what does not parse becomes 0.
ToNumericFillZero(cell) ==
    IF IsNull(cell) THEN Num(0)
    ELSE IF cell[1] = "num" THEN cell
    ELSE IF cell[1] = "str" /\ ParseNumber(cell[2]) # <<>> THEN Num(ParseNumber(cell[2])[1])
    ELSE Num(0)

\* pd.to_numeric(..., errors='coerce') on one cell.
ToNumeric(cell) ==
    IF IsNull(cell) THEN Null
    ELSE IF cell[1] = "num" THEN cell
    ELSE IF cell[1] = "str" /\ ParseNumber(cell[2]) # <<>> THEN Num(ParseNumber(cell[2])[1])
    ELSE Null

\* df.dropna(subset=...): the rows with no missing cell in the subset.
DropNa(t, subset) ==
    Where(t, [i \in 1..Len(t.rows) |-> \A c \in subset : ~IsNull(t.rows[i][c])])

CoerceTypes(t) ==
    LET t1 == SetColumn(t, "data", [i \in 1..Len(t.rows) |-> ToDatetime(t.rows[i]["data"])])
    IN SetColumn(t1, "valor", [i \in 1..Len(t1.rows) |-> ToNumeric(t1.rows[i]["valor"])])

AddDerivedColumns(t) ==
    LET t1 == SetColumn(t, "mes", [i \in 1..Len(t.rows) |-> MonthLabel(DateOf(t.rows[i]["data"]))])
        t2 == SetColumn(t1, "trimestre", [i \in 1..Len(t.rows) |-> QuarterLabel(DateOf(t.rows[i]["data"]))])
    IN SetColumn(t2, "ano", [i \in 1..Len(t.rows) |-> YearLabel(DateOf(t.rows[i]["data"]))])

\* Mutant: a frame without value column gets one of zeros.
load_data_fill_valor(f) ==
    IF ~f.readable THEN [df |-> None, error |-> "read"]
    ELSE LET t0 == StandardizeColumns(f.frame, required_cols)
             t == IF "valor" \in t0.columns THEN t0
                  ELSE SetColumn(t0, "valor", [i \in 1..Len(t0.rows) |-> Num(0)])
         IN
         IF "data" \notin t.columns THEN [df |-> None, error |-> "'data'"]
         ELSE IF "empresa" \notin t.columns THEN [df |-> None, error |-> "['empresa']"]
         ELSE [df |-> AddDerivedColumns(DropNa(CoerceTypes(t), {"data", "valor", "empresa"})),
               error |-> NoError]

\* Mutant: a frame without company or salesperson column gets one of sentinels.
load_data_sentinel(f) ==
    IF ~f.readable THEN [df |-> None, error |-> "read"]
    ELSE LET t0 == StandardizeColumns(f.frame, required_cols)
             t1 == IF "empresa" \in t0.columns THEN t0
                   ELSE SetColumn(t0, "empresa", [i \in 1..Len(t0.rows) |-> Str("")])
             t == IF "vendedor" \in t1.columns THEN t1
                  ELSE SetColumn(t1, "vendedor", [i \in 1..Len(t1.rows) |-> Str("")])
         IN
         IF "data" \notin t.columns THEN [df |-> None, error |-> "'data'"]
         ELSE IF "valor" \notin t.columns THEN [df |-> None, error |-> "'valor'"]
         ELSE [df |-> AddDerivedColumns(DropNa(CoerceTypes(t), {"data", "valor", "empresa"})),
               error |-> NoError]

\* The body of load_data: [df, error].  Any exception ends in st.error and None.
load_data(f) ==
    IF ~f.readable THEN [df |-> None, error |-> "read"]
    ELSE LET t == StandardizeColumns(f.frame, required_cols) IN
         IF "data" \notin t.columns THEN [df |-> None, error |-> "'data'"]
         ELSE IF "valor" \notin t.columns THEN [df |-> None, error |-> "'valor'"]
         ELSE IF "empresa" \notin t.columns THEN [df |-> None, error |-> "['empresa']"]
         ELSE [df |-> AddDerivedColumns(DropNa(CoerceTypes(t), {"data", "valor", "empresa"})),
               error |-> NoError]

----------------------------------------------------------------------------
(* analise.py: sidebar_filters.                                            *)

\* Python's order of the names (sorted(), and the key order of groupby).
NameOrder == <<"Acme", "Ana", "Beta", "Bia", "Caio", "Duda">>
NameRank(cell) == CHOOSE i \in 1..Len(NameOrder) : NameOrder[i] = cell[2]

\* The dates and amounts an analyst picks in the date input and the slider.
DateCandidates == {<<2023, 12, 31>>, <<2024, 1, 15>>, <<2024, 2, 1>>, <<2024, 6, 30>>}
ValueCandidates == {-5, 0, 5, 100}

Granularities == {"Diario", "Semanal", "Mensal", "Trimestral", "Anual"}

Unique(t, name) == Range(Column(t, name))

MinDate(t) == CHOOSE d \in Unique(t, "data") : \A e \in Unique(t, "data") : DateLE(DateOf(d), DateOf(e))
MaxDate(t) == CHOOSE d \in Unique(t, "data") : \A e \in Unique(t, "data") : DateLE(DateOf(e), DateOf(d))
MinValor(t) == CHOOSE v \in Unique(t, "valor") : \A w \in Unique(t, "valor") : NumOf(v) <= NumOf(w)
MaxValor(t) == CHOOSE v \in Unique(t, "valor") : \A w \in Unique(t, "valor") : NumOf(v) >= NumOf(w)

\* st.date_input over [min_date, max_date]: a range, or its first date alone
\* while the analyst is still picking the second.
DateRanges(t) ==
    LET lo == DateOf(MinDate(t))
        hi == DateOf(MaxDate(t))
        inside == {d \in DateCandidates : DateLE(lo, d) /\ DateLE(d, hi)}
    IN {r \in inside \X inside : DateLE(r[1], r[2])}
         \cup {<<a>> : a \in inside}

\* st.slider over (min_val, max_val).
ValRanges(t) ==
    LET inside == {v \in ValueCandidates : NumOf(MinValor(t)) <= v /\ v <= NumOf(MaxValor(t))}
    IN {r \in inside \X inside : r[1] <= r[2]}

\* What sidebar_filters can end in: [exception, filters].
\*  - no 'vendedor' column: df['vendedor'] raises KeyError;
\*  - missing and text cells together under 'vendedor': sorted() raises TypeError;
\*  - an empty frame: min() and max() are NaT/NaN and the widget library decides
\*    whether it raises or hands the missing bounds back;
\*  - otherwise every combination the five widgets can return.
sidebar_filters(t) ==
    IF Len(t.rows) = 0
    THEN {[exception |-> "StreamlitAPIException", filters |-> None]}
         \cup (IF "vendedor" \notin t.columns
               THEN {[exception |-> "KeyError: 'vendedor'", filters |-> None]}
               ELSE {[exception |-> NoError,
                      filters |-> [date_range |-> <<Null, Null>>, empresas |-> {},
                                   vendedores |-> {}, val_range |-> <<Null, Null>>,
                                   time_granularity |-> g]] : g \in Granularities})
    ELSE IF "vendedor" \notin t.columns
    THEN {[exception |-> "KeyError: 'vendedor'", filters |-> None]}
    ELSE IF Null \in Unique(t, "vendedor") /\ Unique(t, "vendedor") # {Null}
    THEN {[exception |-> "TypeError", filters |-> None]}
    ELSE {[exception |-> NoError,
           filters |-> [date_range |-> dr, empresas |-> es, vendedores |-> vs,
                        val_range |-> vr, time_granularity |-> g]] :
             dr \in DateRanges(t), es \in SUBSET Unique(t, "empresa"),
             vs \in SUBSET Unique(t, "vendedor"), vr \in ValRanges(t),
             g \in Granularities}

----------------------------------------------------------------------------
(* analise.py: apply_filters.                                              *)

FilterByDate(t, f) ==
    Where(t, [i \in 1..Len(t.rows) |->
                 /\ DateLE(f.date_range[1], DateOf(t.rows[i]["data"]))
                 /\ DateLE(DateOf(t.rows[i]["data"]), f.date_range[2])])

\* Mutant: an empty selection read as no restriction.
FilterByEmpresaVendedorOrAll(t, f) ==
    Where(t, [i \in 1..Len(t.rows) |->
                 /\ (f.empresas = {} \/ t.rows[i]["empresa"] \in f.empresas)
                 /\ (f.vendedores = {} \/ t.rows[i]["vendedor"] \in f.vendedores)])

FilterByEmpresaVendedor(t, f) ==
    Where(t, [i \in 1..Len(t.rows) |->
                 /\ t.rows[i]["empresa"] \in f.empresas
                 /\ t.rows[i]["vendedor"] \in f.vendedores])

\* Mutant: the amounts clipped into the range instead of the rows filtered.
FilterByValorClip(t, f) ==
    SetColumn(t, "valor", [i \in 1..Len(t.rows) |->
        Num(Max(f.val_range[1], Min(f.val_range[2], NumOf(t.rows[i]["valor"]))))])

\* Mutant: the lower end excluded.
FilterByValorStrict(t, f) ==
    Where(t, [i \in 1..Len(t.rows) |->
                 /\ NumOf(t.rows[i]["valor"]) > f.val_range[1]
                 /\ NumOf(t.rows[i]["valor"]) <= f.val_range[2]])

\* Mutant: the lower end taken from the frame at hand, and excluded.
FilterByValorAboveMin(t, f) ==
    Where(t, [i \in 1..Len(t.rows) |->
                 /\ \E j \in 1..Len(t.rows) : NumOf(t.rows[i]["valor"]) > NumOf(t.rows[j]["valor"])
                 /\ NumOf(t.rows[i]["valor"]) <= f.val_range[2]])

FilterByValor(t, f) ==
    Where(t, [i \in 1..Len(t.rows) |->
                 /\ NumOf(t.rows[i]["valor"]) >= f.val_range[1]
                 /\ NumOf(t.rows[i]["valor"]) <= f.val_range[2]])

Periodo(row, granularity) ==
    IF granularity = "Diario" THEN DayLabel(DateOf(row["data"]))
    ELSE IF granularity = "Semanal" THEN WeekLabel(DateOf(row["data"]))
    ELSE IF granularity = "Mensal" THEN row["mes"]
    ELSE IF granularity = "Trimestral" THEN row["trimestre"]
    ELSE row["ano"]

SetPeriodo(t, f) ==
    SetColumn(t, "periodo", [i \in 1..Len(t.rows) |-> Periodo(t.rows[i], f.time_granularity)])

\* [exception, df]: filters['date_range'][1] raises IndexError on a one-date range.
apply_filters(t, f) ==
    IF Len(f.date_range) < 2 THEN [exception |-> "IndexError", df |-> None]
    ELSE [exception |-> NoError,
          df |-> SetPeriodo(FilterByValor(FilterByEmpresaVendedor(FilterByDate(t, f), f), f), f)]

----------------------------------------------------------------------------
(* analise.py: display_summary_metrics and display_visualizations.         *)

Valores(t) == [i \in 1..Len(t.rows) |-> NumOf(t.rows[i]["valor"])]

\* df.groupby(key): the rows of each key value (missing keys form no group).
Groups(t, key) == Unique(t, key) \ {Null}
GroupRows(t, key, g) == Where(t, [i \in 1..Len(t.rows) |-> t.rows[i][key] = g])
GroupSum(t, key, g) == SumSeq(Valores(GroupRows(t, key, g)))

\* The mean as the pair (sum, count); NaN for no rows.
Mean(t) == IF Len(t.rows) = 0 THEN Null ELSE <<"ratio", SumSeq(Valores(t)), Len(t.rows)>>

display_summary_metrics(t) ==
    [total |-> SumSeq(Valores(t)),
     transacoes |-> Len(t.rows),
     ticket_medio |-> Mean(t),
     clientes |-> Cardinality(Unique(t, "empresa") \ {Null})]

\* nlargest(10) of the company totals: the groups fewer than 10 others precede
\* (a larger total, or the same total and an earlier key).
TopClientesN == 10
TopClientes(t) ==
    LET gs == Groups(t, "empresa")
        before(g) == {h \in gs :
                        \/ GroupSum(t, "empresa", h) > GroupSum(t, "empresa", g)
                        \/ /\ GroupSum(t, "empresa", h) = GroupSum(t, "empresa", g)
                           /\ NameRank(h) < NameRank(g)}
    IN {g \in gs : Cardinality(before(g)) < TopClientesN}

\* The data of the three charts; the fourth tab shows the frame itself.
display_visualizations(t) ==
    [temporal |-> [p \in Groups(t, "periodo") |->
                     [valor |-> GroupSum(t, "periodo", p),
                      empresa |-> Cardinality(Unique(GroupRows(t, "periodo", p), "empresa") \ {Null})]],
     vendedor |-> [v \in Groups(t, "vendedor") |->
                     [total |-> GroupSum(t, "vendedor", v),
                      vendas |-> Len(GroupRows(t, "vendedor", v).rows),
                      clientes |-> Cardinality(Unique(GroupRows(t, "vendedor", v), "empresa") \ {Null})]],
     top_clientes |-> [e \in TopClientes(t) |-> GroupSum(t, "empresa", e)]]

----------------------------------------------------------------------------
(* analise.py: display_alerts.                                             *)

\* The amounts an analyst types into the number input (its default: 10000).
Thresholds == {50, 10000}

NSmallest == 3
InactiveDays == 90

\* df.groupby('vendedor')['valor'].sum().nsmallest(3): the three smallest
\* totals, ascending, equal totals in key order.
LowPerformers(t) ==
    LET gs == Groups(t, "vendedor")
        before(g) == {h \in gs :
                        \/ GroupSum(t, "vendedor", h) < GroupSum(t, "vendedor", g)
                        \/ /\ GroupSum(t, "vendedor", h) = GroupSum(t, "vendedor", g)
                           /\ NameRank(h) < NameRank(g)}
    IN [k \in 1..Min(NSmallest, Cardinality(gs)) |->
          LET g == CHOOSE h \in gs : Cardinality(before(h)) = k - 1
          IN [seller |-> g, amount |-> GroupSum(t, "vendedor", g)]]

\* if any(low_performers < alert_threshold): every seller of low_performers is written.
LowPerformerLines(t, threshold) ==
    IF \E k \in 1..Len(LowPerformers(t)) : LowPerformers(t)[k].amount < threshold
    THEN LowPerformers(t)
    ELSE <<>>

InactiveCustomers(t) ==
    IF Len(t.rows) = 0 THEN {}
    ELSE LET latest == DaysFromCivil(DateOf(MaxDate(t)))
             active == {t.rows[i]["empresa"] : i \in
                          {j \in 1..Len(t.rows) :
                              DaysFromCivil(DateOf(t.rows[j]["data"])) >= latest - InactiveDays}}
         IN Unique(t, "empresa") \ active

\* The values in ascending order.
Sorted(vals) ==
    [k \in 1..Len(vals) |->
        CHOOSE v \in Range(vals) :
            /\ Cardinality({i \in 1..Len(vals) : vals[i] < v}) < k
            /\ k <= Cardinality({i \in 1..Len(vals) : vals[i] <= v})]

\* Four times Series.quantile(num / 4), linear interpolation, of a non-empty series.
Quantile4(vals, num) ==
    LET s == Sorted(vals)
        k == ((Len(vals) - 1) * num) \div 4
        r == ((Len(vals) - 1) * num) % 4
    IN IF r = 0 THEN 4 * s[k + 1] ELSE 4 * s[k + 1] + r * (s[k + 2] - s[k + 1])

\* valor < Q1 - 1.5 * IQR or valor > Q3 + 1.5 * IQR, every term times 8.
IsOutlier(v, vals) ==
    LET q1 == Quantile4(vals, 1)
        q3 == Quantile4(vals, 3)
        iqr == q3 - q1
    IN \/ 8 * v < 2 * q1 - 3 * iqr
       \/ 8 * v > 2 * q3 + 3 * iqr

\* An empty frame has NaN quantiles and every comparison with them is False.
Outliers(t) ==
    Where(t, [i \in 1..Len(t.rows) |-> IsOutlier(Valores(t)[i], Valores(t))])

display_alerts(t, threshold) ==
    [threshold |-> threshold,
     low_performers |-> LowPerformerLines(t, threshold),
     inactive_customers |-> InactiveCustomers(t),
     outliers |-> Outliers(t).rows]

----------------------------------------------------------------------------
(* analise.py: main, one action per step of a script run.                  *)

RunEnded == pc \in {"info", "no_table", "crashed", "done"}

\* A script run starts with nothing on the page.
ResetRun ==
    /\ pc' = "start"
    /\ df' = None
    /\ error' = NoError
    /\ filters' = None
    /\ filtered_df' = None
    /\ metrics' = None
    /\ charts' = None
    /\ alerts' = None
    /\ exception' = NoError

\* The analyst drops the file on st.file_uploader; Streamlit reruns the script.
UploadFile ==
    /\ RunEnded
    /\ uploaded_file = None
    /\ uploaded_file' = file
    /\ ResetRun
    /\ UNCHANGED <<script, st_cache, file, cache>>

\* The analyst removes the file; the cache keeps its entry.
RemoveFile ==
    /\ RunEnded
    /\ uploaded_file # None
    /\ uploaded_file' = None
    /\ ResetRun
    /\ UNCHANGED <<script, st_cache, file, cache>>

\* Any other interaction (a widget of the sidebar, a button) reruns the script.
Rerun ==
    /\ RunEnded
    /\ ResetRun
    /\ UNCHANGED <<script, st_cache, file, uploaded_file, cache>>

\* main with no file: st.info and the picture.
ShowInfo ==
    /\ script = "analise"
    /\ pc = "start"
    /\ uploaded_file = None
    /\ pc' = "info"
    /\ UNCHANGED <<script, st_cache, file, uploaded_file, cache, df, error, filters,
                   filtered_df, metrics, charts, alerts, exception>>

\* df = load_data(uploaded_file) under @st.cache_data: the body runs on a miss;
\* a hit hands out a copy of the stored return value and replays its st.error.
LoadData ==
    /\ script = "analise"
    /\ pc = "start"
    /\ uploaded_file # None
    /\ LET hit == cache # None /\ cache.file = uploaded_file
           result == IF hit THEN [df |-> cache.value, error |-> cache.error]
                     ELSE load_data(uploaded_file)
       IN /\ cache' = IF hit THEN cache
                      ELSE [file |-> uploaded_file, value |-> result.df,
                            returned |-> result.df, error |-> result.error]
          /\ df' = result.df
          /\ error' = result.error
          /\ pc' = IF result.df = None THEN "no_table" ELSE "loaded"
    /\ UNCHANGED <<script, st_cache, file, uploaded_file, filters, filtered_df,
                   metrics, charts, alerts, exception>>

SidebarFilters ==
    /\ script = "analise"
    /\ pc = "loaded"
    /\ \E result \in sidebar_filters(df) :
          /\ filters' = result.filters
          /\ exception' = result.exception
          /\ pc' = IF result.exception = NoError THEN "filters" ELSE "crashed"
    /\ UNCHANGED <<script, st_cache, file, uploaded_file, cache, df, error,
                   filtered_df, metrics, charts, alerts>>

ApplyFilters ==
    /\ script = "analise"
    /\ pc = "filters"
    /\ LET result == apply_filters(df, filters)
       IN /\ filtered_df' = result.df
          /\ exception' = result.exception
          /\ pc' = IF result.exception = NoError THEN "filtered" ELSE "crashed"
    /\ UNCHANGED <<script, st_cache, file, uploaded_file, cache, df, error, filters,
                   metrics, charts, alerts>>

DisplaySummaryMetrics ==
    /\ script = "analise"
    /\ pc = "filtered"
    /\ metrics' = display_summary_metrics(filtered_df)
    /\ pc' = "metrics"
    /\ UNCHANGED <<script, st_cache, file, uploaded_file, cache, df, error, filters,
                   filtered_df, charts, alerts, exception>>

DisplayVisualizations ==
    /\ script = "analise"
    /\ pc = "metrics"
    /\ charts' = display_visualizations(filtered_df)
    /\ pc' = "charts"
    /\ UNCHANGED <<script, st_cache, file, uploaded_file, cache, df, error, filters,
                   filtered_df, metrics, alerts, exception>>

\* display_alerts, then the download button: the run ends.
DisplayAlerts ==
    /\ script = "analise"
    /\ pc = "charts"
    /\ \E threshold \in Thresholds : alerts' = display_alerts(filtered_df, threshold)
    /\ pc' = "done"
    /\ UNCHANGED <<script, st_cache, file, uploaded_file, cache, df, error, filters,
                   filtered_df, metrics, charts, exception>>

NextAnalise ==
    \/ UploadFile
    \/ RemoveFile
    \/ Rerun
    \/ ShowInfo
    \/ LoadData
    \/ SidebarFilters
    \/ ApplyFilters
    \/ DisplaySummaryMetrics
    \/ DisplayVisualizations
    \/ DisplayAlerts

----------------------------------------------------------------------------
(* The files an analyst uploads.  A file is [readable, frame]: the frame   *)
(* pd.read_csv / pd.read_excel returns, or an exception raised by them.    *)

SeqsUpTo(S, n) == UNION {[1..k -> S] : k \in 0..n}

\* The field a column name carries in the input families.
FieldOf(col) ==
    IF col \in {"data", "Data", "DATE", "data_venda"} THEN "data"
    ELSE IF col \in {"valor", "Valor", "VALUE", "total"} THEN "valor"
    ELSE IF col \in {"empresa", "Empresa", "Cliente", "CLIENTE"} THEN "empresa"
    ELSE IF col \in {"vendedor", "Vendedor", "Responsavel", "VENDEDOR"} THEN "vendedor"
    ELSE "outro"

Sale(d, v, e, s) == [data |-> d, valor |-> v, empresa |-> e, vendedor |-> s, outro |-> Str("x")]

MakeFrame(header, sales) ==
    [columns |-> header,
     rows |-> [i \in 1..Len(sales) |-> [c \in header |-> sales[i][FieldOf(c)]]]]

Readable(frame) == [readable |-> TRUE, frame |-> frame]
Unreadable == [readable |-> FALSE, frame |-> MakeFrame({}, <<>>)]

StandardHeader == {"Data", "Valor", "Empresa", "Vendedor"}

\* Headers: each alias list, the standard names themselves, two aliases of one
\* field, an extra column, and every way of lacking a field.
HeadersLoad ==
    { StandardHeader,
      {"DATE", "VALUE", "Cliente", "Responsavel"},
      {"data_venda", "total", "CLIENTE", "VENDEDOR", "Segmento"},
      {"data", "valor", "empresa", "vendedor"},
      {"Data", "DATE", "Valor", "Empresa", "Vendedor"},
      {"Valor", "Empresa", "Vendedor"},
      {"Data", "Empresa", "Vendedor"},
      {"Data", "Valor", "Vendedor"},
      {"Data", "Valor", "Empresa"},
      {"Data", "Valor"},
      {"Empresa", "Vendedor"},
      {"Date", "Value", "Segmento"} }

\* Rows with cells that coerce, that do not, and that are missing.
SalesLoad ==
    { Sale(Str("2024-01-15"), Str("100"), Str("Acme"), Str("Ana")),
      Sale(Str("2024-02-01"), Str("5"), Str("Beta"), Null),
      Sale(Str("abc"), Str("5"), Str("Acme"), Str("Ana")),
      Sale(Str("2024-01-15"), Str("abc"), Str("Acme"), Str("Ana")),
      Sale(Null, Str("R$ 10"), Str("Beta"), Str("Bia")),
      Sale(Str("2024-02-01"), Null, Null, Str("Bia")),
      Sale(Str("2024-06-30"), Str("0"), Null, Null) }

FilesLoad ==
    {Unreadable} \cup
    {Readable(MakeFrame(h, sales)) : h \in HeadersLoad, sales \in SeqsUpTo(SalesLoad, MaxRowsLoad)}

\* Clean rows: several dates, companies, sellers, and amounts of both signs.
SalesFilter ==
    { Sale(Str("2023-12-31"), Num(-5), Str("Acme"), Str("Ana")),
      Sale(Str("2024-01-15"), Num(5), Str("Acme"), Str("Bia")),
      Sale(Str("2024-06-30"), Num(100), Str("Beta"), Str("Ana")) }

FilesFilter ==
    {Readable(MakeFrame(StandardHeader, sales)) : sales \in SeqsUpTo(SalesFilter, MaxRowsFilter)}

\* Rows of one day and one company: the amounts vary, the sellers take turns.
AlertSellers == <<"Ana", "Bia", "Caio", "Duda">>
AlertSales(amounts) ==
    [i \in 1..Len(amounts) |->
        Sale(Str("2024-01-15"), Num(amounts[i]), Str("Acme"),
             Str(AlertSellers[((i - 1) % Len(AlertSellers)) + 1]))]

FilesAlerts ==
    {Readable(MakeFrame(StandardHeader, AlertSales(amounts))) :
        amounts \in SeqsUpTo({5, 100}, MaxRowsAlerts)}

----------------------------------------------------------------------------
(* vendas.py.                                                              *)

\* Series.value_counts(): the count of each value that is not missing.
ValueCounts(t, name) ==
    [v \in Unique(t, name) \ {Null} |->
        Cardinality({i \in 1..Len(t.rows) : t.rows[i][name] = v})]

\* df.groupby(df['Data'].dt.to_period('M')).size(): rows per month, NaT in no group.
VendasPorData(t) ==
    LET dated == {i \in 1..Len(t.rows) : ~IsNull(t.rows[i]["Data"])}
        months == {MonthLabel(DateOf(t.rows[i]["Data"])) : i \in dated}
    IN [m \in months |->
          Cardinality({i \in dated : MonthLabel(DateOf(t.rows[i]["Data"])) = m})]

\* df['Data'] = pd.to_datetime(df['Data'], errors='coerce'), on the frame itself.
CoerceData(t) ==
    SetColumn(t, "Data", [i \in 1..Len(t.rows) |-> ToDatetime(t.rows[i]["Data"])])

\* The script with no file: it ends after the uploader.
VendasIdle ==
    /\ script = "vendas"
    /\ pc = "start"
    /\ uploaded_file = None
    /\ pc' = "info"
    /\ UNCHANGED <<script, st_cache, file, uploaded_file, cache, df, error, filters,
                   filtered_df, metrics, charts, alerts, exception>>

\* df = load_data(uploaded_file) under @st.cache: pd.read_excel runs on a miss
\* (its exception is not caught); a hit hands out the stored frame.
VendasLoadData ==
    /\ script = "vendas"
    /\ pc = "start"
    /\ uploaded_file # None
    /\ LET hit == cache # None /\ cache.file = uploaded_file
       IN IF ~hit /\ ~uploaded_file.readable
          THEN /\ exception' = "read"
               /\ pc' = "crashed"
               /\ UNCHANGED <<cache, df>>
          ELSE /\ cache' = IF hit THEN cache
                           ELSE [file |-> uploaded_file, value |-> uploaded_file.frame,
                                 returned |-> uploaded_file.frame, error |-> NoError]
               /\ df' = cache'.value
               /\ pc' = "loaded"
               /\ UNCHANGED exception
    /\ UNCHANGED <<script, st_cache, file, uploaded_file, error, filters, filtered_df,
                   metrics, charts, alerts>>

\* Lines 23-39: the frame, its description, the counts per segment and per seller.
VendasCounts ==
    /\ script = "vendas"
    /\ pc = "loaded"
    /\ IF "Segmento" \notin df.columns
       THEN exception' = "KeyError: 'Segmento'" /\ pc' = "crashed" /\ UNCHANGED charts
       ELSE IF "Responsavel" \notin df.columns
       THEN exception' = "KeyError: 'Responsavel'" /\ pc' = "crashed" /\ UNCHANGED charts
       ELSE /\ charts' = [segmento |-> ValueCounts(df, "Segmento"),
                          responsavel |-> ValueCounts(df, "Responsavel")]
            /\ pc' = "counts"
            /\ UNCHANGED exception
    /\ UNCHANGED <<script, st_cache, file, uploaded_file, cache, df, error, filters,
                   filtered_df, metrics, alerts>>

\* Lines 41-45: the selectbox over the cadences and the rows of the chosen one
\* (a selectbox with no option returns None, which equals no cell).
VendasCadencia ==
    /\ script = "vendas"
    /\ pc = "counts"
    /\ IF "Cadencia" \notin df.columns
       THEN exception' = "KeyError: 'Cadencia'" /\ pc' = "crashed"
            /\ UNCHANGED <<filters, filtered_df>>
       ELSE /\ \E cadencia \in (IF Len(df.rows) = 0 THEN {Null} ELSE Unique(df, "Cadencia")) :
                 /\ filters' = cadencia
                 /\ filtered_df' = Where(df, [i \in 1..Len(df.rows) |->
                                                 /\ ~IsNull(cadencia)
                                                 /\ df.rows[i]["Cadencia"] = cadencia])
            /\ pc' = "cadencia"
            /\ UNCHANGED exception
    /\ UNCHANGED <<script, st_cache, file, uploaded_file, cache, df, error,
                   metrics, charts, alerts>>

\* Line 49: the assignment writes into df.  The st.cache of the older builds
\* hands out the stored object itself, so the write lands in the cache; the
\* st.cache of the later builds hands out a copy.
VendasCoerceData ==
    /\ script = "vendas"
    /\ pc = "cadencia"
    /\ IF "Data" \notin df.columns
       THEN exception' = "KeyError: 'Data'" /\ pc' = "crashed" /\ UNCHANGED <<cache, df>>
       ELSE /\ df' = CoerceData(df)
            /\ cache' = IF st_cache = "reference"
                        THEN [cache EXCEPT !.value = CoerceData(df)]
                        ELSE cache
            /\ pc' = "coerced"
            /\ UNCHANGED exception
    /\ UNCHANGED <<script, st_cache, file, uploaded_file, error, filters, filtered_df,
                   metrics, charts, alerts>>

\* Lines 50-55: the rows per month, plotted.
VendasPlot ==
    /\ script = "vendas"
    /\ pc = "coerced"
    /\ charts' = [segmento |-> charts.segmento, responsavel |-> charts.responsavel,
                  por_data |-> VendasPorData(df)]
    /\ pc' = "done"
    /\ UNCHANGED <<script, st_cache, file, uploaded_file, cache, df, error, filters,
                   filtered_df, metrics, alerts, exception>>

NextVendas ==
    \/ UploadFile
    \/ RemoveFile
    \/ Rerun
    \/ VendasIdle
    \/ VendasLoadData
    \/ VendasCounts
    \/ VendasCadencia
    \/ VendasCoerceData
    \/ VendasPlot

Lead(d, s, r, c) ==
    [col \in {"Data", "Segmento", "Responsavel", "Cadencia"} |->
        IF col = "Data" THEN d ELSE IF col = "Segmento" THEN s
        ELSE IF col = "Responsavel" THEN r ELSE c]

VendasFrame(header, leads) ==
    [columns |-> header,
     rows |-> [i \in 1..Len(leads) |-> [c \in header |-> leads[i][c]]]]

VendasHeader == {"Data", "Segmento", "Responsavel", "Cadencia"}

HeadersVendas ==
    { VendasHeader,
      {"Data", "Responsavel", "Cadencia"},
      {"Data", "Segmento", "Cadencia"},
      {"Data", "Segmento", "Responsavel"},
      {"Segmento", "Responsavel", "Cadencia"} }

\* Date cells as the spreadsheet reader leaves them: Timestamps, texts, blanks.
LeadsVendas ==
    { Lead(Ts(<<2024, 1, 15>>), Str("Varejo"), Str("Ana"), Str("Semanal")),
      Lead(Str("2024-02-01"), Str("Varejo"), Str("Bia"), Str("Mensal")),
      Lead(Str("abc"), Str("Atacado"), Str("Ana"), Str("Mensal")),
      Lead(Null, Str("Atacado"), Null, Str("Semanal")) }

FilesVendas ==
    {Unreadable} \cup
    {Readable(VendasFrame(h, leads)) : h \in HeadersVendas, leads \in SeqsUpTo(LeadsVendas, MaxRowsVendas)}

----------------------------------------------------------------------------
(* Specifications.                                                         *)

\* The page as opened: no file yet, nothing cached, the first run about to start.
InitSession(files, scripts, modes) ==
    /\ script \in scripts
    /\ st_cache \in modes
    /\ file \in files
    /\ pc = "start"
    /\ uploaded_file = None
    /\ cache = None
    /\ df = None
    /\ error = NoError
    /\ filters = None
    /\ filtered_df = None
    /\ metrics = None
    /\ charts = None
    /\ alerts = None
    /\ exception = NoError

InitLoad == InitSession(FilesLoad, {"analise"}, {"copy"})
InitFilter == InitSession(FilesFilter, {"analise"}, {"copy"})
InitAlerts == InitSession(FilesAlerts, {"analise"}, {"copy"})

InitVendas == InitSession(FilesVendas, {"vendas"}, {"reference", "copy"})

Init == InitLoad \/ InitFilter \/ InitAlerts \/ InitVendas

Next ==
    \/ UploadFile
    \/ RemoveFile
    \/ Rerun
    \/ ShowInfo
    \/ LoadData
    \/ SidebarFilters
    \/ ApplyFilters
    \/ DisplaySummaryMetrics
    \/ DisplayVisualizations
    \/ DisplayAlerts
    \/ VendasIdle
    \/ VendasLoadData
    \/ VendasCounts
    \/ VendasCadencia
    \/ VendasCoerceData
    \/ VendasPlot

Spec == Init /\ [][Next]_vars
SpecVendas == InitVendas /\ [][NextVendas]_vars
SpecLoad == InitLoad /\ [][NextAnalise]_vars
SpecFilter == InitFilter /\ [][NextAnalise]_vars
SpecAlerts == InitAlerts /\ [][NextAnalise]_vars

----------------------------------------------------------------------------
(* Claims about apply_filters (SpecFilter).                                *)

\* The four predicates of the filter specification on one row, ends included.
RowPasses(row, f) ==
    /\ DateLE(f.date_range[1], DateOf(row["data"]))
    /\ DateLE(DateOf(row["data"]), f.date_range[2])
    /\ row["empresa"] \in f.empresas
    /\ row["vendedor"] \in f.vendedores
    /\ f.val_range[1] <= NumOf(row["valor"])
    /\ NumOf(row["valor"]) <= f.val_range[2]

\* The period label the granularity asks for, from the date alone.
PeriodOfDate(date, granularity) ==
    CASE granularity = "Diario" -> DayLabel(date)
      [] granularity = "Semanal" -> WeekLabel(date)
      [] granularity = "Mensal" -> MonthLabel(date)
      [] granularity = "Trimestral" -> QuarterLabel(date)
      [] granularity = "Anual" -> YearLabel(date)

WithoutPeriodo(t) ==
    [i \in 1..Len(t.rows) |-> [c \in t.columns \ {"periodo"} |-> t.rows[i][c]]]

\* C1: apply_filters returns exactly the rows of the table, in their order,
\* whose date lies in date_range, whose company and salesperson are among the
\* selected ones and whose value lies in value_range, both ends of both ranges
\* included; the granularity changes no row, only the period column.
C1_ExactRows ==
    filtered_df # None =>
        /\ WithoutPeriodo(filtered_df) = SelectSeq(df.rows, LAMBDA row : RowPasses(row, filters))
        /\ \A i \in 1..Len(filtered_df.rows) :
              filtered_df.rows[i]["periodo"] =
                  PeriodOfDate(DateOf(filtered_df.rows[i]["data"]), filters.time_granularity)
        /\ \A g \in Granularities :
              WithoutPeriodo(apply_filters(df, [filters EXCEPT !.time_granularity = g]).df)
                  = WithoutPeriodo(filtered_df)

\* A run in which a row at both inclusive ends passed and another row was left out.
C1_Witness ==
    /\ filtered_df # None
    /\ Len(filtered_df.rows) >= 1
    /\ Len(filtered_df.rows) < Len(df.rows)
    /\ \E i \in 1..Len(filtered_df.rows) :
          /\ DateOf(filtered_df.rows[i]["data"]) = filters.date_range[2]
          /\ NumOf(filtered_df.rows[i]["valor"]) = filters.val_range[1]
    /\ filters.time_granularity = "Semanal"

\* C3 as claimed: an empty selection of companies or of salespeople restricts
\* nothing, so the result is that of the remaining predicates.
C3_EmptyMeansUnrestricted ==
    (filtered_df # None /\ (filters.empresas = {} \/ filters.vendedores = {})) =>
        WithoutPeriodo(filtered_df) =
            SelectSeq(df.rows, LAMBDA row :
                /\ DateLE(filters.date_range[1], DateOf(row["data"]))
                /\ DateLE(DateOf(row["data"]), filters.date_range[2])
                /\ (filters.empresas = {} \/ row["empresa"] \in filters.empresas)
                /\ (filters.vendedores = {} \/ row["vendedor"] \in filters.vendedores)
                /\ filters.val_range[1] <= NumOf(row["valor"])
                /\ NumOf(row["valor"]) <= filters.val_range[2])

\* C3 amended: an empty selection of companies or of salespeople lets no row
\* pass: apply_filters returns a table with no rows.
C3_EmptyMeansNoRows ==
    (filtered_df # None /\ (filters.empresas = {} \/ filters.vendedores = {})) =>
        Len(filtered_df.rows) = 0

\* No company selected, while rows of the table pass every other predicate.
C3_Witness ==
    /\ filtered_df # None
    /\ filters.empresas = {}
    /\ filters.vendedores # {}
    /\ \E i \in 1..Len(df.rows) :
          RowPasses(df.rows[i], [filters EXCEPT !.empresas = Unique(df, "empresa")])

\* C8 as claimed: the filtered total never exceeds the total of the table.
C8_TotalNeverGrows ==
    filtered_df # None => SumSeq(Valores(filtered_df)) <= SumSeq(Valores(df))

NonNegative(t) == \A i \in 1..Len(t.rows) : NumOf(t.rows[i]["valor"]) >= 0

\* C8 amended: for every table whose values are all non-negative and every
\* filter spec, the filtered total, also as display_summary_metrics shows it,
\* is at most the total of the table.
C8_TotalNeverGrowsNonNegative ==
    /\ (filtered_df # None /\ NonNegative(df)) =>
           SumSeq(Valores(filtered_df)) <= SumSeq(Valores(df))
    /\ (metrics # None /\ NonNegative(df)) => metrics.total <= SumSeq(Valores(df))

\* A table of non-negative values of which the filter left out a paying row.
C8_Witness ==
    /\ metrics # None
    /\ NonNegative(df)
    /\ Len(filtered_df.rows) >= 1
    /\ metrics.total < SumSeq(Valores(df))

\* C9: applying the same filter spec to the filtered table gives the filtered
\* table again, rows and columns, the period column included.
C9_Idempotent ==
    filtered_df # None =>
        /\ apply_filters(filtered_df, filters).exception = NoError
        /\ apply_filters(filtered_df, filters).df = filtered_df

\* A filtered table that kept some rows and lost others.
C9_Witness ==
    /\ filtered_df # None
    /\ Len(filtered_df.rows) >= 1
    /\ Len(filtered_df.rows) < Len(df.rows)
    /\ filters.val_range[1] = NumOf(MinValor(filtered_df))

----------------------------------------------------------------------------
(* Claims about load_data and the start of main (SpecLoad).                *)

\* A canonical field resolves when the frame holds its standard name after
\* the renaming: one of its aliases, or that name itself.
Resolves(k, columns) ==
    \/ required_cols[k].standard \in columns
    \/ \E a \in 1..Len(required_cols[k].possible) : required_cols[k].possible[a] \in columns

DateCoercible(cell) ==
    /\ ~IsNull(cell)
    /\ cell[1] = "ts" \/ (cell[1] = "str" /\ ParseDate(cell[2]) # <<>>)

NumberCoercible(cell) ==
    /\ ~IsNull(cell)
    /\ cell[1] = "num" \/ (cell[1] = "str" /\ ParseNumber(cell[2]) # <<>>)

\* The rows of the uploaded frame whose date and value both coerce.
CoercibleRows(f) ==
    LET t == StandardizeColumns(f.frame, required_cols) IN
    {i \in 1..Len(t.rows) :
        DateCoercible(t.rows[i]["data"]) /\ NumberCoercible(t.rows[i]["valor"])}

\* C2: when load_data returns a table, every row of it has a date and a value
\* that are not missing, and it has no more rows than the upload has rows whose
\* date and value coerce: a row that fails coercion is removed, never kept
\* with a zero or a placeholder.
C2_NoMissingDateOrValue ==
    df # None =>
        /\ \A i \in 1..Len(df.rows) :
              /\ ~IsNull(df.rows[i]["data"]) /\ df.rows[i]["data"][1] = "ts"
              /\ ~IsNull(df.rows[i]["valor"]) /\ df.rows[i]["valor"][1] = "num"
        /\ Len(df.rows) <= Cardinality(CoercibleRows(file))

\* A table that kept a row and lost one whose value is no number.
C2_Witness ==
    /\ df # None
    /\ Len(df.rows) = 1
    /\ Len(file.frame.rows) = 2
    /\ \E c \in file.frame.columns, i \in 1..2 : file.frame.rows[i][c] = Str("abc")

\* C4: when neither date nor value can be left without a column: if the
\* uploaded table has no column for the date, or none for the value,
\* load_data ends with an error naming that field and returns no table, and
\* main runs neither the filters nor the metrics, charts or alerts.
C4_MissingMandatoryFieldStops ==
    ( /\ uploaded_file # None
      /\ pc # "start"
      /\ uploaded_file.readable
      /\ ~Resolves(1, uploaded_file.frame.columns) \/ ~Resolves(2, uploaded_file.frame.columns) ) =>
        /\ pc = "no_table"
        /\ df = None
        /\ cache.value = None
        /\ error = (IF ~Resolves(1, uploaded_file.frame.columns) THEN "'data'" ELSE "'valor'")
        /\ filters = None /\ filtered_df = None
        /\ metrics = None /\ charts = None /\ alerts = None

\* An upload with a date column and no value column, after main has run.
C4_Witness ==
    /\ uploaded_file # None
    /\ Resolves(1, uploaded_file.frame.columns)
    /\ ~Resolves(2, uploaded_file.frame.columns)
    /\ Len(uploaded_file.frame.rows) >= 1
    /\ pc = "no_table"
    /\ error = "'valor'"

OptionalFieldMissing ==
    /\ uploaded_file # None
    /\ pc # "start"
    /\ uploaded_file.readable
    /\ Resolves(1, uploaded_file.frame.columns)
    /\ Resolves(2, uploaded_file.frame.columns)
    /\ ~Resolves(3, uploaded_file.frame.columns) \/ ~Resolves(4, uploaded_file.frame.columns)

----------------------------------------------------------------------------
(* Claims about display_alerts (SpecAlerts).                               *)

\* C6: the low-performer alert lists exactly the salespeople whose total is
\* below the threshold, one line each, in ascending order of total.
C6_ExactlyBelowThreshold ==
    alerts # None =>
        LET lines == alerts.low_performers
            low == {g \in Groups(filtered_df, "vendedor") :
                      GroupSum(filtered_df, "vendedor", g) < alerts.threshold}
        IN /\ {lines[k].seller : k \in 1..Len(lines)} = low
           /\ Len(lines) = Cardinality(low)
           /\ \A k \in 1..Len(lines) - 1 : lines[k].amount <= lines[k + 1].amount

\* C7: no outlier is reported for fewer than 4 rows or an interquartile range
\* of 0; otherwise exactly the rows outside [Q1 - 1.5 IQR, Q3 + 1.5 IQR] are.
C7_OutliersDegenerate ==
    alerts # None =>
        LET vals == Valores(filtered_df) IN
        IF Len(vals) < 4 \/ Quantile4(vals, 3) - Quantile4(vals, 1) = 0
        THEN alerts.outliers = <<>>
        ELSE alerts.outliers =
                SelectSeq(filtered_df.rows, LAMBDA row :
                    \/ 8 * NumOf(row["valor"]) < 2 * Quantile4(vals, 1)
                           - 3 * (Quantile4(vals, 3) - Quantile4(vals, 1))
                    \/ 8 * NumOf(row["valor"]) > 2 * Quantile4(vals, 3)
                           + 3 * (Quantile4(vals, 3) - Quantile4(vals, 1)))

----------------------------------------------------------------------------
(* Claim about the cached table (Spec: both scripts).                      *)

\* C10: the table the cache holds stays as load_data returned it, whatever
\* the script and the analyst do afterwards.
C10_HeldTableUnchanged ==
    cache # None => cache.value = cache.returned

=============================================================================
